---- MODULE Spec2Model ----
(***************************************************************************)
(* yarn-plugin-nixify: the generator that runs after `yarn install`        *)
(* (src/unnamed/part_000) and the body of the `yarn nixify` command        *)
(* (src/src/index.ts), as one state machine over a project directory.      *)
(*                                                                         *)
(* Locators are numbered in the lexicographic order of their locator       *)
(* strings, so that Array.prototype.sort() on locator strings is the       *)
(* ascending order of the numbers:                                         *)
(*   1  dep@npm:1.0.0                                                      *)
(*   2  lib@npm:1.0.0                                                      *)
(*   3  lib@patch:lib@npm:1.0.0#fix.patch    (patch of 2)                  *)
(*   4  lib@virtual:c1#npm:1.0.0             (virtual instance of 2)       *)
(*   5  lib@virtual:c2#npm:1.0.0             (virtual instance of 2)       *)
(*   6  top@workspace:.                                                    *)
(*   7, 8, ...  z007@npm:1.0.0, z008@npm:1.0.0, ...  (plain packages)      *)
(***************************************************************************)
EXTENDS Integers, Sequences, FiniteSets, TLC

\* ------------------------------------------------------------------ bounds
\* Runs of a generator on the one project directory in a behaviour.
MaxRuns == 2
\* Call-stack frames the JavaScript engine gives collectTree before it
\* throws RangeError (Maximum call stack size exceeded).
MaxStack == 7
\* Packages of the largest project.
MaxBulk == 201

\* ------------------------------------------------------- program constants
\* toPreload.splice(0, 100)
BatchSize == 100

Null == "null"
NoChecksum == <<>>

\* ---------------------------------------------------------------- locators
Locators == 1..6

\* pkg.name
NameOf(l) == <<"dep", "lib", "lib", "lib", "lib", "top">>[l]

\* structUtils.isVirtualLocator(pkg)
isVirtualLocator(l) == l \in {4, 5}

\* structUtils.devirtualizeLocator(pkg)
devirtualizeLocator(l) == IF l \in {4, 5} THEN 2 ELSE l

\* pkg.reference.startsWith("patch:")
isPatchLocator(l) == l = 3

\* patchUtils.parseLocator(pkg).sourceLocator
sourceLocator(l) == IF l = 3 THEN 2 ELSE l

\* ------------------------------------------------------ sequence utilities
Range(s) == {s[i] : i \in DOMAIN s}

\* The elements of S between lo and hi in ascending order.
RECURSIVE AscendingIn(_, _, _)
AscendingIn(S, lo, hi) ==
  IF lo > hi THEN <<>>
  ELSE IF lo = hi THEN (IF lo \in S THEN <<lo>> ELSE <<>>)
  ELSE LET mid == (lo + hi) \div 2
       IN AscendingIn(S, lo, mid) \o AscendingIn(S, mid + 1, hi)

\* The elements of a set of locators in ascending order.
Ascending(S) == AscendingIn(S, 1, 6 + MaxBulk)

Reverse(s) == [i \in 1..Len(s) |-> s[Len(s) + 1 - i]]

\* Set.prototype.add on an insertion-ordered Set, kept as a sequence.
SetAdd(s, x) == IF x \in Range(s) THEN s ELSE Append(s, x)

\* [...set].sort() on locator strings.
SortLocators(s) == Ascending(Range(s))

\* ---------------------------------------------------------------- projects
\* A project is what the resolver and fetcher hand to the generators:
\*   storedPackages     the locators registered in project.storedPackages
\*   dependencies       pkg.dependencies, the descriptors of each package
\*   storedResolutions  project.storedResolutions, descriptor -> locator
\*   storedBuildState   the keys of project.storedBuildState, in Map order
\*   storedChecksums    project.storedChecksums, <<cacheKey, sha512>> for the
\*                      string "cacheKey/sha512", NoChecksum when undefined
\*   cachePath          cache.getLocatorPath(pkg, checksum), a file or Null
\*   cacheFiles         readdir(cache.cwd)
\*   unreadable         cache files hashUtils.checksumFile cannot read
\*   fileHash           sha512 of a cache file's content, <<first 7, rest>>
\*   isolatedNixBuilds  configuration isolatedNixBuilds
\*   yarnPath, cacheFolder, sources
\*                      configuration.get(`yarnPath`), (`cacheFolder`) and
\*                      configuration.sources: absolute paths, as segments
\* ------------------------------------------------------------------- paths
\* A path is the sequence of its segments; an absolute path starts with the
\* root segment "/".
\* project.cwd
ProjectCwd == <<"/", "home", "proj">>

\* process.cwd(): the generators are run at the project root.
ProcessCwd == ProjectCwd

\* configuration.get(`nixExprPath`), at its default in the project root
NixExprPath == ProjectCwd \o <<"yarn-project.nix">>

InProject(path) == ProjectCwd \o path

IsAbsolute(path) == path # <<>> /\ path[1] = "/"

\* Segments appended to an absolute path, ".." taking one segment back.
RECURSIVE Normalize(_, _)
Normalize(done, rest) ==
  IF rest = <<>> THEN done
  ELSE IF Head(rest) = ".."
    THEN Normalize(IF Len(done) > 1 THEN SubSeq(done, 1, Len(done) - 1)
                   ELSE done, Tail(rest))
  ELSE IF Head(rest) = "." THEN Normalize(done, Tail(rest))
  ELSE Normalize(Append(done, Head(rest)), Tail(rest))

\* ppath.resolve(path)
Resolve(path) ==
  IF IsAbsolute(path) THEN Normalize(<<"/">>, Tail(path))
  ELSE Normalize(ProcessCwd, path)

CommonPrefixLen(a, b) ==
  CHOOSE k \in 0..Len(a) :
    /\ k <= Len(b)
    /\ SubSeq(a, 1, k) = SubSeq(b, 1, k)
    /\ (k < Len(a) /\ k < Len(b)) => a[k + 1] # b[k + 1]

\* ppath.relative(from, to)
Relative(from, to) ==
  LET f == Resolve(from)
      t == Resolve(to)
      k == CommonPrefixLen(f, t)
  IN [i \in 1..(Len(f) - k) |-> ".."] \o SubSeq(t, k + 1, Len(t))

\* ppath.dirname(path)
Dirname(path) == SubSeq(path, 1, Len(path) - 1)

AllResolutions ==
  ("dep@^1" :> 1) @@ ("dep@*" :> 1) @@ ("lib@^1" :> 2) @@
  ("lib@patch" :> 3) @@ ("lib@v1" :> 4) @@ ("lib@v2" :> 5)

Without(f, k) == [x \in DOMAIN f \ {k} |-> f[x]]

Peers ==
  [ storedPackages    |-> {1, 2, 4, 5, 6},
    dependencies      |-> << <<>>, <<"dep@^1">>, <<"dep@^1">>,
                             <<"dep@^1", "dep@*">>, <<"dep@^1">>,
                             <<"lib@v1", "lib@v2">> >>,
    storedResolutions |-> AllResolutions,
    storedBuildState  |-> <<4, 5>>,
    storedChecksums   |-> << <<"8", <<"aaaaaaa", "1">> >>,
                             <<"8", <<"bbbbbbb", "2">> >>,
                             <<"8", <<"ccccccc", "3">> >>,
                             NoChecksum, NoChecksum, NoChecksum >>,
    cachePath         |-> <<"dep.zip", "lib.zip", "libpatch.zip",
                            Null, Null, Null>>,
    cacheFiles        |-> {"dep.zip", "lib.zip"},
    unreadable        |-> {},
    fileHash          |-> ("dep.zip" :> <<"aaaaaaa", "1">>) @@
                          ("lib.zip" :> <<"bbbbbbb", "2">>) @@
                          ("libpatch.zip" :> <<"ccccccc", "3">>) @@
                          ("vlib.zip" :> <<"bbbbbbb", "4">>),
    isolatedNixBuilds |-> {"lib"},
    yarnPath          |-> InProject(<<".yarn", "releases", "yarn.cjs">>),
    cacheFolder       |-> InProject(<<".yarn", "cache">>),
    sources           |-> << <<"<environment>">>,
                             InProject(<<".yarnrc.yml">>) >> ]

\* Installed occurrences 4, 2, 5 of lib share one devirtualized identity;
\* dep is installed and allow-listed too.
Mixed ==
  [Peers EXCEPT !.storedBuildState = <<1, 4, 2, 5>>,
                !.isolatedNixBuilds = {"lib", "dep"}]

\* dep is allow-listed but was never installed.
NotInstalled ==
  [Peers EXCEPT !.storedBuildState = <<5, 4>>,
                !.isolatedNixBuilds = {"lib", "dep"}]

\* The only installed package is not on the allow-list.
NoMatch == [Peers EXCEPT !.storedBuildState = <<1>>]

NoIsolation == [Peers EXCEPT !.isolatedNixBuilds = {}]

\* dep depends on lib, lib depends on dep.
Cycle ==
  [Peers EXCEPT !.storedPackages = {1, 2, 6},
                !.dependencies = << <<"lib@^1">>, <<"dep@^1">>, <<>>, <<>>,
                                    <<>>, <<"lib@^1">> >>,
                !.storedBuildState = <<2>>]

\* lib is patched; the patched archive has no stored checksum.
Patched ==
  [Peers EXCEPT !.storedPackages = {1, 2, 3, 6},
                !.dependencies = << <<>>, <<"dep@^1">>, <<>>, <<>>, <<>>,
                                    <<"lib@patch">> >>,
                !.storedBuildState = <<3>>,
                !.storedChecksums = << <<"8", <<"aaaaaaa", "1">> >>,
                                       <<"8", <<"bbbbbbb", "2">> >>,
                                       NoChecksum, NoChecksum, NoChecksum,
                                       NoChecksum >>,
                !.cacheFiles = {"dep.zip", "lib.zip", "libpatch.zip"}]

PatchedUncached == [Patched EXCEPT !.cacheFiles = {"dep.zip", "lib.zip"}]

PatchedUnreadable == [Patched EXCEPT !.unreadable = {"libpatch.zip"}]

\* dep resolves to a local path: its derived file is not in the cache.
LocalDep == [Peers EXCEPT !.cacheFiles = {"lib.zip"}]

\* One virtual instance has an archive of its own.
VirtualCached ==
  [Peers EXCEPT !.cachePath = <<"dep.zip", "lib.zip", "libpatch.zip",
                                "vlib.zip", Null, Null>>,
                !.cacheFiles = {"dep.zip", "lib.zip", "vlib.zip"}]

\* The checksums of dep and lib begin with the same seven characters.
SharedPrefix ==
  [Peers EXCEPT !.storedChecksums =
                   << <<"8", <<"aaaaaaa", "1">> >>,
                      <<"8", <<"aaaaaaa", "2">> >>,
                      <<"8", <<"ccccccc", "3">> >>,
                      NoChecksum, NoChecksum, NoChecksum >>]

\* The two virtual instances have different closures.
Skewed ==
  [Peers EXCEPT !.dependencies = << <<>>, <<>>, <<>>, <<"dep@^1">>, <<>>,
                                    <<"lib@v1", "lib@v2">> >>,
                !.storedBuildState = <<5, 4>>]

\* Corrupt graphs.
NoResolution ==
  [Peers EXCEPT !.storedResolutions = Without(AllResolutions, "dep@*"),
                !.yarnPath = InProject(<<"tools", "yarn.cjs">>)]

NoPackage == [Peers EXCEPT !.storedPackages = {2, 4, 5, 6}]

NoDevirtualized ==
  [Peers EXCEPT !.storedPackages = {1, 4, 5, 6},
                !.yarnPath = InProject(<<"tools", "yarn.cjs">>)]

NoSource ==
  [Patched EXCEPT !.storedPackages = {1, 3, 6},
                  !.yarnPath = InProject(<<"tools", "yarn.cjs">>)]

NoBuildPackage ==
  [Peers EXCEPT !.storedPackages = {1, 2, 4, 6}]

\* Paths outside the project directory.
Outside ==
  [Peers EXCEPT !.yarnPath = <<"/", "home", "yarn.cjs">>,
                !.cacheFolder = <<"/", "home", "cache">>,
                !.sources = << <<"<environment>">>,
                               InProject(<<".yarnrc.yml">>),
                               <<"/", "home", ".yarnrc.yml">> >>]

\* The cache folder is the directory that holds the project directory.
ParentCache == [Peers EXCEPT !.cacheFolder = <<"/", "home">>]

\* A configuration file in the home directory; the Yarn release is kept
\* outside .yarn.
OutsideSource ==
  [Peers EXCEPT !.yarnPath = InProject(<<"tools", "yarn.cjs">>),
                !.sources = << <<"<environment>">>,
                               InProject(<<".yarnrc.yml">>),
                               <<"/", "home", ".yarnrc.yml">> >>]

\* The Yarn release is kept outside .yarn.
Vendored == [Mixed EXCEPT !.yarnPath = InProject(<<"tools", "yarn.cjs">>)]

\* n plain packages without dependencies, all of them in the cache, none
\* of them with a build step.
Bulk(n) ==
  [Peers EXCEPT
     !.storedPackages = 7..(6 + n),
     !.dependencies = [l \in 7..(6 + n) |-> <<>>],
     !.storedBuildState = <<>>,
     !.storedChecksums =
        [l \in 7..(6 + n) |-> <<"8", <<"h" \o ToString(l), "x">> >>],
     !.cachePath = [l \in 7..(6 + n) |-> "z" \o ToString(l) \o ".zip"],
     !.cacheFiles = {"z" \o ToString(l) \o ".zip" : l \in 7..(6 + n)},
     !.isolatedNixBuilds = {}]

\* One full batch, one file more than a batch, and the largest project.
BulkSizes == {BatchSize, BatchSize + 1, MaxBulk}

Projects ==
  { Bulk(n) : n \in BulkSizes } \cup
  { Peers, Vendored, Mixed, NotInstalled, NoMatch, NoIsolation, Cycle, Patched,
    PatchedUncached, PatchedUnreadable, LocalDep, VirtualCached, Skewed,
    NoResolution, NoPackage, NoDevirtualized, NoSource, NoBuildPackage,
    Outside, ParentCache, OutsideSource, SharedPrefix }

\* ------------------------------------------------------------------- state
VARIABLES
  project,              \* the resolved project, one of Projects
  nixExpr,              \* the file at nixExprPath (yarn-project.nix)
  defaultNix,           \* default.nix: "absent", "template" or "custom"
  flakeNix,             \* whether flake.nix exists
  nixStore,             \* locators whose fixed-output store path exists
  runs,                 \* generator runs started so far
  before,               \* the files as the current run found them
  cfg,                  \* the run's generator and configuration
  pc,                   \* position of the run
  yarnPath,             \* let yarnPath (part_000:46)
  cacheFolder,          \* let cacheFolder (part_000:56)
  cacheEntries,         \* Map locatorStr -> {filename, sha512}, in Map order
  isolatedPackages,     \* Set<Package> of planned devirtualized packages
  isolatedCode,         \* isolated-build definitions
  isolatedIntegration,  \* lines of the injection block
  buildIdx,             \* position in project.storedBuildState.keys()
  stack,                \* call stack of collectTree
  out,                  \* collectTree's out Set, in insertion order
  toPreload,            \* staged files still to hand to nix-store
  numToPreload,         \* toPreload.length before the batches
  calls,                \* batches nix-store --add-fixed was invoked with
  report,               \* report.reportInfo / reportWarning / reportError
  thrown,               \* the error the run threw, or Null
  written               \* files this run wrote

vars ==
  << project, nixExpr, defaultNix, flakeNix, nixStore, runs, before, cfg,
     pc,
     yarnPath, cacheFolder, cacheEntries, isolatedPackages, isolatedCode,
     isolatedIntegration, buildIdx, stack, out, toPreload, numToPreload,
     calls, report, thrown, written >>

fsVars == << nixExpr, defaultNix, nixStore >>
planVars ==
  << isolatedPackages, isolatedCode, isolatedIntegration, buildIdx, stack,
     out >>
preloadVars == << toPreload, numToPreload, calls >>
inputVars == << project, flakeNix, runs, before, cfg >>

NoFile == [by |-> "none"]
NoConfig ==
  [gen |-> "none", order |-> "asc", nodeLinker |-> "pnp", temp |-> FALSE,
   generateDefaultNix |-> FALSE]

Ended == {"done", "failed", "skipped"}

Init ==
  /\ project \in Projects
  /\ nixExpr = NoFile
  /\ defaultNix \in {"absent", "custom"}
  /\ flakeNix \in BOOLEAN
  /\ nixStore = {}
  /\ runs = 0
  /\ before = [nixExpr |-> nixExpr, defaultNix |-> defaultNix,
               nixStore |-> nixStore]
  /\ cfg = NoConfig
  /\ pc = "idle"
  /\ yarnPath = <<>>
  /\ cacheFolder = <<>>
  /\ cacheEntries = <<>>
  /\ isolatedPackages = {}
  /\ isolatedCode = <<>>
  /\ isolatedIntegration = <<>>
  /\ buildIdx = 1
  /\ stack = <<>>
  /\ out = <<>>
  /\ toPreload = <<>>
  /\ numToPreload = 0
  /\ calls = <<>>
  /\ report = <<>>
  /\ thrown = Null
  /\ written = {}

\* One run of a generator starts: `yarn install` calls the hook
\* (part_000:26) or the user runs `yarn nixify` (index.ts:142-157).
StartRun ==
  /\ pc \in Ended \cup {"idle"}
  /\ runs < MaxRuns
  /\ runs' = runs + 1
  /\ before' = [nixExpr |-> nixExpr, defaultNix |-> defaultNix,
                nixStore |-> nixStore]
  /\ \E linker \in {"pnp", "node-modules"} :
       \/ \E order \in {"asc", "desc"}, temp, gdn \in BOOLEAN :
            cfg' = [gen |-> "hook", order |-> order, nodeLinker |-> linker,
                    temp |-> temp, generateDefaultNix |-> gdn]
       \/ cfg' = [NoConfig EXCEPT !.gen = "command", !.nodeLinker = linker]
  /\ pc' = "start"
  /\ yarnPath' = <<>>
  /\ cacheFolder' = <<>>
  /\ cacheEntries' = <<>>
  /\ isolatedPackages' = {}
  /\ isolatedCode' = <<>>
  /\ isolatedIntegration' = <<>>
  /\ buildIdx' = 1
  /\ stack' = <<>>
  /\ out' = <<>>
  /\ toPreload' = <<>>
  /\ numToPreload' = 0
  /\ calls' = <<>>
  /\ report' = <<>>
  /\ thrown' = Null
  /\ written' = {}
  /\ UNCHANGED << project, flakeNix, fsVars >>

\* throw Error(...) out of the generator
Throw(err) ==
  /\ pc' = "failed"
  /\ thrown' = err

\* ----------------------------------------- the install hook (part_000:26)
\* A check that takes every path to be inside the project.
NeverStartsWithDotDotSlash(path) == FALSE

\* relativePath.startsWith(`../`)
StartsWithDotDotSlash(path) == Len(path) > 1 /\ path[1] = ".."

\* source.startsWith(`<`), as in <environment>
IsPseudoSource(path) == Len(path) = 1 /\ path[1] = "<environment>"

\* The project lives in the OS temp dir (yarn dlx): nothing is generated.
SkipTemporary ==
  /\ pc = "start"
  /\ cfg.gen = "hook"
  /\ cfg.temp
  /\ report' = Append(report, <<"info", "skipping">>)
  /\ pc' = "skipped"
  /\ UNCHANGED << inputVars, fsVars, yarnPath, cacheFolder, cacheEntries,
                  planVars, preloadVars, thrown, written >>

SourceWarnings(sources) ==
  LET outside ==
        SelectSeq(sources,
          LAMBDA source :
            /\ ~IsPseudoSource(source)
            /\ StartsWithDotDotSlash(Relative(ProjectCwd, source)))
  IN [i \in 1..Len(outside) |-> <<"warning", "configOutside", outside[i]>>]

SanityChecks ==
  /\ pc = "start"
  /\ cfg.gen = "hook"
  /\ ~cfg.temp
  /\ LET yarnPathAbs == project.yarnPath
         yarnPathRelative == Relative(ProjectCwd, yarnPathAbs)
         cacheFolderAbs == project.cacheFolder
         cacheFolderRelative == Relative(ProjectCwd, cacheFolderAbs)
     IN /\ yarnPath' = IF StartsWithDotDotSlash(yarnPathRelative)
                       THEN yarnPathAbs ELSE yarnPathRelative
        /\ cacheFolder' = IF StartsWithDotDotSlash(cacheFolderRelative)
                          THEN cacheFolderAbs ELSE cacheFolderRelative
        /\ report' =
             report
             \o (IF StartsWithDotDotSlash(yarnPathRelative)
                 THEN << <<"warning", "yarnPathOutside", yarnPathAbs>> >>
                 ELSE <<>>)
             \o (IF StartsWithDotDotSlash(cacheFolderRelative)
                 THEN << <<"warning", "cacheFolderOutside",
                           cacheFolderAbs>> >>
                 ELSE <<>>)
             \o SourceWarnings(project.sources)
  /\ pc' = "index"
  /\ UNCHANGED << inputVars, fsVars, cacheEntries, planVars, preloadVars,
                  thrown, written >>

\* project.storedPackages.values(), in the order the run enumerates them
StoredPackagesValues(p, order) ==
  IF order = "asc" THEN Ascending(p.storedPackages)
  ELSE Reverse(Ascending(p.storedPackages))

\* Map.prototype.set(locatorStr, entry)
MapSet(entries, entry) ==
  IF \E i \in DOMAIN entries : entries[i].locator = entry.locator
  THEN [i \in DOMAIN entries |->
          IF entries[i].locator = entry.locator THEN entry ELSE entries[i]]
  ELSE Append(entries, entry)

\* A cache that takes every derived file to be on disk.
OnDiskAlways(p, filename) == TRUE

\* cacheFiles.has(filename)
OnDisk(p, filename) == filename \in p.cacheFiles

\* Map.prototype.has(locatorStr) on cacheEntries
HasEntry(entries, l) == \E i \in DOMAIN entries : entries[i].locator = l

\* The body of the loop over project.storedPackages.values(), for one
\* package.
IndexPackage(p, pkg, entries) ==
  LET checksum == p.storedChecksums[pkg]
      path == p.cachePath[pkg]
  IN IF path = Null THEN [entries |-> entries, error |-> Null]
     ELSE IF ~OnDisk(p, path) THEN [entries |-> entries, error |-> Null]
     ELSE IF checksum = NoChecksum /\ path \in p.unreadable
       THEN [entries |-> entries, error |-> "ChecksumError"]
     ELSE
       LET sha512 == IF checksum # NoChecksum THEN checksum[2]
                     ELSE p.fileHash[path]
       IN [entries |-> MapSet(entries, [locator |-> pkg, filename |-> path,
                                        sha512 |-> sha512]),
           error |-> Null]

\* The loop over project.storedPackages.values(): the loop over the first
\* half of the packages and then, unless that threw, over the rest.
RECURSIVE IndexPackages(_, _, _)
IndexPackages(p, pkgs, entries) ==
  IF pkgs = <<>> THEN [entries |-> entries, error |-> Null]
  ELSE IF Len(pkgs) = 1 THEN IndexPackage(p, pkgs[1], entries)
  ELSE
    LET half == Len(pkgs) \div 2
        first == IndexPackages(p, SubSeq(pkgs, 1, half), entries)
    IN IF first.error # Null THEN first
       ELSE IndexPackages(p, SubSeq(pkgs, half + 1, Len(pkgs)),
                          first.entries)

\* Build the list of cache entries.
IndexCache ==
  /\ pc = "index"
  /\ LET r == IndexPackages(project,
                StoredPackagesValues(project, cfg.order), <<>>)
     IN IF r.error # Null
        THEN /\ Throw(r.error)
             /\ UNCHANGED cacheEntries
        ELSE /\ cacheEntries' = r.entries
             /\ pc' = "plan"
             /\ UNCHANGED thrown
  /\ UNCHANGED << inputVars, fsVars, yarnPath, cacheFolder, planVars,
                  preloadVars, report, written >>

\* ------------------------------------------------- collectTree (130-183)
\* A frame of collectTree: the package it was called with, and where the
\* call stands: before the virtual check, before the patch check, or at
\* dependency number i of the loop over pkg.dependencies.values().
Frame(pkg) == [pkg |-> pkg, at |-> "virtual", i |-> 1]

Top == stack[Len(stack)]

\* The caller's frame moves on and collectTree(pkg, out) is entered: the
\* locator is added to out when it is a key of cacheEntries. No frame is
\* left on the engine's stack: RangeError.
Call(caller, pkg) ==
  IF Len(caller) >= MaxStack
  THEN /\ Throw("RangeError")
       /\ UNCHANGED << stack, out >>
  ELSE /\ stack' = Append(caller, Frame(pkg))
       /\ out' = IF HasEntry(cacheEntries, pkg) THEN SetAdd(out, pkg)
                 ELSE out
       /\ UNCHANGED << pc, thrown >>

Advance(frame) ==
  IF frame.at = "virtual" THEN [frame EXCEPT !.at = "patch"]
  ELSE IF frame.at = "patch" THEN [frame EXCEPT !.at = "deps"]
  ELSE [frame EXCEPT !.i = frame.i + 1]

Moved == [stack EXCEPT ![Len(stack)] = Advance(Top)]

walkFrame ==
  << inputVars, fsVars, yarnPath, cacheFolder, cacheEntries,
     isolatedPackages, isolatedCode, isolatedIntegration, buildIdx,
     preloadVars, report, written >>

CollectTreeVirtual ==
  /\ pc = "walk"
  /\ Top.at = "virtual"
  /\ IF isVirtualLocator(Top.pkg)
     THEN LET devirtPkg == devirtualizeLocator(Top.pkg)
          IN IF devirtPkg \notin project.storedPackages
             THEN /\ Throw("LocatorNotRegistered")
                  /\ UNCHANGED << stack, out >>
             ELSE Call(Moved, devirtPkg)
     ELSE /\ stack' = Moved
          /\ UNCHANGED << out, pc, thrown >>
  /\ UNCHANGED walkFrame

\* collectTree without the patch branch.
CollectTreePatchSkipped ==
  /\ pc = "walk"
  /\ Top.at = "patch"
  /\ stack' = Moved
  /\ UNCHANGED << out, pc, thrown >>
  /\ UNCHANGED walkFrame

CollectTreePatch ==
  /\ pc = "walk"
  /\ Top.at = "patch"
  /\ IF isPatchLocator(Top.pkg)
     THEN LET depatchPkg == sourceLocator(Top.pkg)
          IN IF depatchPkg \notin project.storedPackages
             THEN /\ Throw("LocatorNotRegistered")
                  /\ UNCHANGED << stack, out >>
             ELSE Call(Moved, depatchPkg)
     ELSE /\ stack' = Moved
          /\ UNCHANGED << out, pc, thrown >>
  /\ UNCHANGED walkFrame

\* collectTree passing over a dependency it cannot resolve.
CollectTreeDependencyLenient ==
  /\ pc = "walk"
  /\ Top.at = "deps"
  /\ Top.i <= Len(project.dependencies[Top.pkg])
  /\ LET dependency == project.dependencies[Top.pkg][Top.i]
     IN IF \/ dependency \notin DOMAIN project.storedResolutions
           \/ project.storedResolutions[dependency]
                \notin project.storedPackages
        THEN /\ stack' = Moved
             /\ UNCHANGED << out, pc, thrown >>
        ELSE Call(Moved, project.storedResolutions[dependency])
  /\ UNCHANGED walkFrame

CollectTreeDependency ==
  /\ pc = "walk"
  /\ Top.at = "deps"
  /\ Top.i <= Len(project.dependencies[Top.pkg])
  /\ LET dependency == project.dependencies[Top.pkg][Top.i]
     IN IF dependency \notin DOMAIN project.storedResolutions
        THEN /\ Throw("DescriptorNotRegistered")
             /\ UNCHANGED << stack, out >>
        ELSE LET resolution == project.storedResolutions[dependency]
             IN IF resolution \notin project.storedPackages
                THEN /\ Throw("LocatorNotRegistered")
                     /\ UNCHANGED << stack, out >>
                ELSE Call(Moved, resolution)
  /\ UNCHANGED walkFrame

\* return out; the outermost call returns to the planner.
CollectTreeReturn ==
  /\ pc = "walk"
  /\ Top.at = "deps"
  /\ Top.i > Len(project.dependencies[Top.pkg])
  /\ stack' = SubSeq(stack, 1, Len(stack) - 1)
  /\ pc' = IF Len(stack) = 1 THEN "emit" ELSE "walk"
  /\ UNCHANGED << out, thrown >>
  /\ UNCHANGED walkFrame

\* ------------------------------------- isolated builds loop (185-263)
BuildKeys == project.storedBuildState

\* const pkg = project.storedPackages.get(locatorHash)
CurrentPkg == BuildKeys[buildIdx]

AtBuildKey == pc = "plan" /\ buildIdx <= Len(BuildKeys)

\* isolatedBuilds.includes(pkg.name)
IsIsolated(pkg) == NameOf(pkg) \in project.isolatedNixBuilds

\* A planner that takes any linker.
AnyLinkerSupported(linker) == TRUE

\* switch (nodeLinker) { case `pnp`: ... }
LinkerSupported(linker) == linker = "pnp"

\* ppath.join(pnpUnpluggedFolder, slugifyLocator(pkg),
\*            getIdentVendorPath(pkg)), relative to project.cwd
InstallLocation(pkg) ==
  <<".yarn", "unplugged", <<"slug", pkg>>, "node_modules", NameOf(pkg)>>

\* A planner that takes every occurrence for a new package.
NeverPlanned(planned, devirtPkg) == FALSE

\* isolatedPackages.has(devirtPkg): the packages are the objects held by
\* project.storedPackages, one per locator.
AlreadyPlanned(planned, devirtPkg) == devirtPkg \in planned

\* isolatedCode.push(...), lines 238-250
IsolatedBuild(pkg, devirtPkg, tree) ==
  [prop |-> devirtPkg, pname |-> NameOf(pkg), version |-> "1.0.0",
   locators |-> SortLocators(tree)]

\* An injection step that names the build after the occurrence itself.
InjectedByOccurrence(integration, pkg, devirtPkg) ==
  (IF Len(integration) = 0 THEN << [kind |-> "header"] >> ELSE integration)
  \o << [kind |-> "inject", locator |-> pkg, prop |-> pkg,
         installLocation |-> InstallLocation(pkg)] >>

\* isolatedIntegration after lines 253-262 for one occurrence
Injected(integration, pkg, devirtPkg) ==
  (IF Len(integration) = 0 THEN << [kind |-> "header"] >> ELSE integration)
  \o << [kind |-> "inject", locator |-> pkg, prop |-> devirtPkg,
         installLocation |-> InstallLocation(pkg)] >>

planFrame ==
  << inputVars, fsVars, yarnPath, cacheFolder, cacheEntries, preloadVars,
     report, written >>

\* The install plan names a locator that is not registered.
PlanUnregistered ==
  /\ AtBuildKey
  /\ CurrentPkg \notin project.storedPackages
  /\ Throw("LocatorNotRegistered")
  /\ UNCHANGED << planFrame, planVars >>

\* The package is not on the allow-list: continue.
PlanNotIsolated ==
  /\ AtBuildKey
  /\ CurrentPkg \in project.storedPackages
  /\ ~IsIsolated(CurrentPkg)
  /\ buildIdx' = buildIdx + 1
  /\ UNCHANGED << planFrame, isolatedPackages, isolatedCode,
                  isolatedIntegration, stack, out, pc, thrown >>

PlanUnsupportedLinker ==
  /\ AtBuildKey
  /\ CurrentPkg \in project.storedPackages
  /\ IsIsolated(CurrentPkg)
  /\ ~LinkerSupported(cfg.nodeLinker)
  /\ Throw("UnsupportedLinker")
  /\ UNCHANGED << planFrame, planVars >>

Plannable ==
  /\ AtBuildKey
  /\ CurrentPkg \in project.storedPackages
  /\ IsIsolated(CurrentPkg)
  /\ LinkerSupported(cfg.nodeLinker)

\* The devirtualized locator is not registered.
PlanDevirtualizeFailed ==
  /\ Plannable
  /\ isVirtualLocator(CurrentPkg)
  /\ devirtualizeLocator(CurrentPkg) \notin project.storedPackages
  /\ Throw("LocatorNotRegistered")
  /\ UNCHANGED << planFrame, planVars >>

Devirtualized ==
  /\ Plannable
  /\ isVirtualLocator(CurrentPkg) =>
       devirtualizeLocator(CurrentPkg) \in project.storedPackages

\* First occurrence of the devirtualized package: collectTree(pkg) is
\* called with a fresh out.
PlanCollect ==
  /\ Devirtualized
  /\ ~AlreadyPlanned(isolatedPackages, devirtualizeLocator(CurrentPkg))
  /\ isolatedPackages' =
       isolatedPackages \cup {devirtualizeLocator(CurrentPkg)}
  /\ stack' = << Frame(CurrentPkg) >>
  /\ out' = IF HasEntry(cacheEntries, CurrentPkg) THEN <<CurrentPkg>>
            ELSE <<>>
  /\ pc' = "walk"
  /\ UNCHANGED << planFrame, isolatedCode, isolatedIntegration, buildIdx,
                  thrown >>

\* collectTree returned: the definition and the injection step are pushed.
PlanEmit ==
  /\ pc = "emit"
  /\ isolatedCode' =
       Append(isolatedCode,
              IsolatedBuild(CurrentPkg, devirtualizeLocator(CurrentPkg),
                            out))
  /\ isolatedIntegration' =
       Injected(isolatedIntegration, CurrentPkg,
                devirtualizeLocator(CurrentPkg))
  /\ buildIdx' = buildIdx + 1
  /\ pc' = "plan"
  /\ UNCHANGED << planFrame, isolatedPackages, stack, out, thrown >>

\* A later occurrence that starts the definition of its package afresh.
PlanInjectRedefining ==
  /\ Devirtualized
  /\ AlreadyPlanned(isolatedPackages, devirtualizeLocator(CurrentPkg))
  /\ isolatedCode' =
       [i \in DOMAIN isolatedCode |->
          IF isolatedCode[i].prop = devirtualizeLocator(CurrentPkg)
          THEN IsolatedBuild(CurrentPkg, devirtualizeLocator(CurrentPkg),
                             <<>>)
          ELSE isolatedCode[i]]
  /\ isolatedIntegration' =
       Injected(isolatedIntegration, CurrentPkg,
                devirtualizeLocator(CurrentPkg))
  /\ buildIdx' = buildIdx + 1
  /\ UNCHANGED << planFrame, isolatedPackages, stack, out, pc, thrown >>

\* A later occurrence of a planned package: only the injection step.
PlanInject ==
  /\ Devirtualized
  /\ AlreadyPlanned(isolatedPackages, devirtualizeLocator(CurrentPkg))
  /\ isolatedIntegration' =
       Injected(isolatedIntegration, CurrentPkg,
                devirtualizeLocator(CurrentPkg))
  /\ buildIdx' = buildIdx + 1
  /\ UNCHANGED << planFrame, isolatedPackages, isolatedCode, stack, out,
                  pc, thrown >>

\* ------------------------------------------ rendering (264-281, 356-514)
\* let cacheEntriesCode: one line per entry, in the Map's order
CacheEntriesCode(entries) ==
  [i \in DOMAIN entries |->
     <<entries[i].locator, entries[i].filename, entries[i].sha512>>]

\* if (isolatedIntegration.length > 0) push(`echo 'running yarn install'`)
Closed(integration) ==
  IF Len(integration) > 0 THEN Append(integration, [kind |-> "trailer"])
  ELSE integration

\* A renderer that always asks for the support section.
AlwaysNeedSupport(integration) == TRUE

\* NEED_ISOLATED_BUILD_SUPPRORT: isolatedIntegration.length > 0
NeedIsolatedBuildSupport(integration) == Len(integration) > 0

\* const yarnPathRel = ppath.relative(ppath.dirname(nixExprPath), yarnPath)
YarnPathRel(path) == Relative(Dirname(NixExprPath), path)

\* renderTmpl(projectExprTmpl, vars): every @@SLOT@@ holds its value, and
\* the lines between `#@@ IF flag` and `#@@ ENDIF flag` are kept when the
\* flag is true.
renderTmpl(tmplVars) ==
  [by |-> "hook",
   yarnPath |-> tmplVars.YARN_PATH,
   cacheFolder |-> tmplVars.CACHE_FOLDER,
   cacheEntries |-> tmplVars.CACHE_ENTRIES,
   isolated |-> tmplVars.ISOLATED,
   integration |-> tmplVars.ISOLATED_INTEGRATION,
   supportSection |-> tmplVars.NEED_ISOLATED_BUILD_SUPPRORT]

\* The loop over the install plan is over: render and write the file.
RenderAndWrite ==
  /\ pc = "plan"
  /\ buildIdx > Len(BuildKeys)
  /\ isolatedIntegration' = Closed(isolatedIntegration)
  /\ nixExpr' =
       renderTmpl([YARN_PATH |-> YarnPathRel(yarnPath),
                   CACHE_FOLDER |-> cacheFolder,
                   CACHE_ENTRIES |-> CacheEntriesCode(cacheEntries),
                   ISOLATED |-> isolatedCode,
                   ISOLATED_INTEGRATION |-> isolatedIntegration',
                   NEED_ISOLATED_BUILD_SUPPRORT |->
                     NeedIsolatedBuildSupport(isolatedIntegration')])
  /\ written' = written \cup {"nixExpr"}
  /\ pc' = "wrapper"
  /\ UNCHANGED << inputVars, defaultNix, nixStore, yarnPath, cacheFolder,
                  cacheEntries, isolatedPackages, isolatedCode, buildIdx,
                  stack, out, preloadVars, report, thrown >>

\* A wrapper step that does not look for an existing default.nix.
HookAlwaysWraps(generate, default, flake) == generate /\ ~flake

\* generateDefaultNix && !existsSync(default.nix) && !existsSync(flake.nix)
HookNeedsWrapper(generate, default, flake) ==
  generate /\ default = "absent" /\ ~flake

\* Create a wrapper if it does not exist yet.
WriteWrapper ==
  /\ pc = "wrapper"
  /\ IF HookNeedsWrapper(cfg.generateDefaultNix, defaultNix, flakeNix)
     THEN /\ defaultNix' = "template"
          /\ written' = written \cup {"default.nix"}
          /\ report' = Append(report, <<"info", "defaultNixCreated">>)
     ELSE UNCHANGED << defaultNix, written, report >>
  /\ pc' = "preload"
  /\ UNCHANGED << inputVars, nixExpr, nixStore, yarnPath, cacheFolder,
                  cacheEntries, planVars, preloadVars, thrown >>

\* ------------------------------------------------------ preload (296-353)
\* sanitizeDerivationName(locator): the characters a store name cannot
\* hold are replaced by dashes.
sanitizeDerivationName(l) ==
  IF l \in Locators
  THEN << "dep-npm-1.0.0", "lib-npm-1.0.0",
          "lib-patch-lib-npm-1.0.0-fix.patch", "lib-virtual-c1-npm-1.0.0",
          "lib-virtual-c2-npm-1.0.0", "top-workspace-." >>[l]
  ELSE "z" \o ToString(l) \o "-npm-1.0.0"

\* computeFixedOutputStorePath(name, `sha512`, hash)
computeFixedOutputStorePath(name, hash) == <<name, hash>>

\* The body of the loop over cacheEntries.entries(), for one entry: dirs
\* are the subdirectories made in tempDir so far; mkdirPromise fails on
\* one that exists.
StageEntry(entry, store, dirs, staged) ==
  LET name == sanitizeDerivationName(entry.locator)
      storePath == computeFixedOutputStorePath(name, entry.sha512)
      subdir == entry.sha512[1]
  IN IF storePath \in store
     THEN [toPreload |-> staged, dirs |-> dirs, error |-> Null]
     ELSE IF subdir \in dirs
       THEN [toPreload |-> staged, dirs |-> dirs, error |-> "EEXIST"]
     ELSE [toPreload |-> Append(staged, [dir |-> subdir, name |-> name,
                                         content |-> entry.sha512]),
           dirs |-> dirs \cup {subdir},
           error |-> Null]

\* The loop over cacheEntries.entries(): the loop over the first half of
\* the entries and then, unless that threw, over the rest.
RECURSIVE Stage(_, _, _, _)
Stage(entries, store, dirs, staged) ==
  IF entries = <<>>
  THEN [toPreload |-> staged, dirs |-> dirs, error |-> Null]
  ELSE IF Len(entries) = 1 THEN StageEntry(entries[1], store, dirs, staged)
  ELSE
    LET half == Len(entries) \div 2
        first == Stage(SubSeq(entries, 1, half), store, dirs, staged)
    IN IF first.error # Null THEN first
       ELSE Stage(SubSeq(entries, half + 1, Len(entries)), store,
                  first.dirs, first.toPreload)

hookTail ==
  << inputVars, nixExpr, defaultNix, yarnPath, cacheFolder, cacheEntries,
     planVars, written >>

\* enableNixPreload is off, or there is no /nix/store.
PreloadOff ==
  /\ pc = "preload"
  /\ pc' = "done"
  /\ UNCHANGED << hookTail, nixStore, preloadVars, report, thrown >>

\* The files to preload are copied into the temporary directory.
StageFiles ==
  /\ pc = "preload"
  /\ LET r == Stage(cacheEntries, nixStore, {}, <<>>)
     IN IF r.error # Null
        THEN /\ Throw(r.error)
             /\ UNCHANGED << toPreload, numToPreload >>
        ELSE /\ toPreload' = r.toPreload
             /\ numToPreload' = Len(r.toPreload)
             /\ pc' = "batch"
             /\ UNCHANGED thrown
  /\ UNCHANGED << hookTail, nixStore, calls, report >>

\* A splice that takes everything that is left.
TakeAll(a, b) == b

\* The number of elements toPreload.splice(0, 100) removes.
Min(a, b) == IF a < b THEN a ELSE b

\* A catch block that swallows every error.
SwallowedAll(code) == TRUE

\* if (err.code !== "ENOENT") throw err
Swallowed(code) == code = "ENOENT"

\* One round of the while loop: toPreload.splice(0, 100), then nix-store.
PreloadBatch ==
  /\ pc = "batch"
  /\ toPreload # <<>>
  /\ LET n == Min(BatchSize, Len(toPreload))
         batch == SubSeq(toPreload, 1, n)
     IN /\ toPreload' = SubSeq(toPreload, n + 1, Len(toPreload))
        /\ \E outcome \in {"ok", "ENOENT", "EFAIL"} :
             /\ calls' = Append(calls, [batch |-> batch,
                                        outcome |-> outcome])
             /\ IF outcome = "ok"
                THEN /\ nixStore' =
                          nixStore \cup
                          { computeFixedOutputStorePath(batch[i].name,
                                                        batch[i].content) :
                            i \in DOMAIN batch }
                     /\ UNCHANGED << pc, thrown >>
                ELSE /\ UNCHANGED nixStore
                     /\ IF Swallowed(outcome)
                        THEN pc' = "done" /\ UNCHANGED thrown
                        ELSE Throw(outcome)
  /\ UNCHANGED << hookTail, numToPreload, report >>

\* The loop is over: the count is reported.
PreloadReport ==
  /\ pc = "batch"
  /\ toPreload = <<>>
  /\ report' = IF numToPreload # 0
               THEN Append(report, <<"info", "preloaded", numToPreload>>)
               ELSE report
  /\ pc' = "done"
  /\ UNCHANGED << hookTail, nixStore, preloadVars, thrown >>

\* ------------------------------------ `yarn nixify` (index.ts:22-137)
\* yarnPath.startsWith("."): the first segment begins with a dot
StartsWithDot(path) ==
  path # <<>> /\ path[1] \in {"..", ".", ".yarn", ".yarnrc.yml"}

\* relativePath.startsWith(`..`)
StartsWithDotDot(path) == path # <<>> /\ path[1] = ".."

\* const yarnPath = ppath.relative(cwd, yarnPathAbs)
NixifyYarnPath == Relative(ProjectCwd, project.yarnPath)

commandFrame ==
  << inputVars, nixStore, yarnPath, cacheFolder, cacheEntries, planVars,
     preloadVars >>

AtCommand == pc = "start" /\ cfg.gen = "command"

\* report.reportError(...); return
ReportError(tag) ==
  /\ report' = Append(report, <<"error", tag>>)
  /\ pc' = "failed"
  /\ UNCHANGED << commandFrame, nixExpr, defaultNix, thrown, written >>

NixifyUnsupportedLinker ==
  /\ AtCommand
  /\ cfg.nodeLinker # "pnp"
  /\ ReportError("UnsupportedLinker")

NixifyYarnPathOutside ==
  /\ AtCommand
  /\ cfg.nodeLinker = "pnp"
  /\ StartsWithDot(NixifyYarnPath)
  /\ ReportError("yarnPathOutside")

NixifyReady ==
  /\ AtCommand
  /\ cfg.nodeLinker = "pnp"
  /\ ~StartsWithDot(NixifyYarnPath)

\* The lockfile or the .pnp file is missing.
NixifyNotInstalled ==
  /\ NixifyReady
  /\ ReportError("notInstalled")

\* yarnClosureInput, in insertion order
YarnClosureInput ==
  << <<"package.json">>, <<"yarn.lock">>, NixifyYarnPath >>
  \o SelectSeq(project.sources, LAMBDA source : ~IsPseudoSource(source))

\* yarnClosureEntries: the file and the directories leading up to it
YarnClosureEntries ==
  LET kept ==
        SelectSeq(YarnClosureInput,
          LAMBDA inputPath :
            ~StartsWithDotDot(Relative(ProjectCwd, inputPath)))
  IN UNION { LET relativePath == Relative(ProjectCwd, kept[i])
             IN { <<"regular", relativePath>> }
                \cup { <<"directory", SubSeq(relativePath, 1, n)>> :
                       n \in 1..(Len(relativePath) - 1) } :
             i \in DOMAIN kept }

ClosureWarnings ==
  LET ignored ==
        SelectSeq(YarnClosureInput,
          LAMBDA inputPath :
            StartsWithDotDot(Relative(ProjectCwd, inputPath)))
  IN [i \in 1..Len(ignored) |-> <<"warning", "pathIgnored", ignored[i]>>]

\* execUtils.execvp(`nix-hash`, ...) fails.
NixifyHashFailed ==
  /\ NixifyReady
  /\ report' = report \o ClosureWarnings
  /\ \E code \in {"ENOENT", "EFAIL"} : Throw(code)
  /\ UNCHANGED << commandFrame, nixExpr, defaultNix, written >>

\* !xfs.existsSync(defaultExprPath)
NixifyNeedsWrapper(default) == default = "absent"

\* The expression is rendered and written, then the wrapper.
NixifyWrite ==
  /\ NixifyReady
  /\ nixExpr' = [by |-> "command", yarnPath |-> NixifyYarnPath,
                 closureEntries |-> YarnClosureEntries]
  /\ IF NixifyNeedsWrapper(defaultNix)
     THEN /\ defaultNix' = "template"
          /\ written' = {"nixExpr", "default.nix"}
          /\ report' = report \o ClosureWarnings
                       \o << <<"info", "wroteExpr">>,
                             <<"info", "wroteDefault">> >>
     ELSE /\ UNCHANGED defaultNix
          /\ written' = {"nixExpr"}
          /\ report' = report \o ClosureWarnings
                       \o << <<"info", "wroteExpr">> >>
  /\ pc' = "done"
  /\ UNCHANGED << commandFrame, thrown >>

\* ------------------------------------------------------------ behaviours
Next ==
  \/ StartRun
  \/ SkipTemporary
  \/ SanityChecks
  \/ IndexCache
  \/ PlanUnregistered
  \/ PlanNotIsolated
  \/ PlanUnsupportedLinker
  \/ PlanDevirtualizeFailed
  \/ PlanCollect
  \/ CollectTreeVirtual
  \/ CollectTreePatch
  \/ CollectTreeDependency
  \/ CollectTreeReturn
  \/ PlanEmit
  \/ PlanInject
  \/ RenderAndWrite
  \/ WriteWrapper
  \/ PreloadOff
  \/ StageFiles
  \/ PreloadBatch
  \/ PreloadReport
  \/ NixifyUnsupportedLinker
  \/ NixifyYarnPathOutside
  \/ NixifyNotInstalled
  \/ NixifyHashFailed
  \/ NixifyWrite

Spec == Init /\ [][Next]_vars

\* ================================================================ claims
\* The packages one step from l: its devirtualized locator, its patch
\* source, and the locators its dependencies resolve to, as far as the
\* tables hold them.
Edges(p, l) ==
  (IF isVirtualLocator(l) THEN {devirtualizeLocator(l)} ELSE {})
  \cup (IF isPatchLocator(l) THEN {sourceLocator(l)} ELSE {})
  \cup { p.storedResolutions[d] :
         d \in Range(p.dependencies[l]) \cap DOMAIN p.storedResolutions }

RECURSIVE Closure(_, _)
Closure(p, S) ==
  LET T == S \cup ((UNION { Edges(p, l) : l \in S }) \cap p.storedPackages)
  IN IF T = S THEN S ELSE Closure(p, T)

Reachable(p, root) == Closure(p, {root})

\* The packages with retrievable offline content.
CacheKeys(p) ==
  { l \in p.storedPackages :
      p.cachePath[l] # Null /\ p.cachePath[l] \in p.cacheFiles }

\* C1: collectTree terminates on every finite graph: it never exhausts the
\* call stack, and on the graph where dep and lib depend on each other it
\* returns {dep, lib}.
C1_CollectTreeTerminates ==
  /\ thrown # "RangeError"
  /\ (project = Cycle /\ pc = "emit") => Range(out) = {1, 2}

\* C2: when collectTree returns to the planner, out holds exactly the
\* cache-entry keys among the packages reachable from the root through
\* dependency, devirtualization and patch-source edges, each once.
C2_ClosureExact ==
  pc = "emit" =>
    /\ Range(out) = Reachable(project, CurrentPkg) \cap CacheKeys(project)
    /\ Len(out) = Cardinality(Range(out))

\* The walk from the patch locator has returned with the patched archive,
\* the unpatched package and the unpatched package's dependency.
C2_Witness ==
  /\ project = Patched
  /\ pc = "emit"
  /\ CurrentPkg = 3
  /\ Range(out) = {1, 2, 3}

\* The installed packages whose name is on the allow-list, in plan order.
InstalledIsolated ==
  SelectSeq(BuildKeys,
            LAMBDA l : l \in project.storedPackages /\ IsIsolated(l))

\* The injection steps of an injection block.
Injections(integration) ==
  SelectSeq(integration, LAMBDA line : line.kind = "inject")

\* The hook has been through the whole install plan in this run.
PlanProcessed == cfg.gen = "hook" /\ "nixExpr" \in written

\* C3: once the whole install plan is processed there is exactly one
\* isolated-build definition per devirtualized locator of the installed
\* allow-listed packages, and exactly one injection step per installed
\* allow-listed package, each referring to its devirtualized locator.
C3_OneBuildPerIdentity ==
  PlanProcessed =>
    LET identities ==
          {devirtualizeLocator(l) : l \in Range(InstalledIsolated)}
        steps == Injections(isolatedIntegration)
    IN /\ {isolatedCode[i].prop : i \in DOMAIN isolatedCode} = identities
       /\ Len(isolatedCode) = Cardinality(identities)
       /\ [i \in DOMAIN steps |-> steps[i].locator] = InstalledIsolated
       /\ \A i \in DOMAIN steps :
            steps[i].prop = devirtualizeLocator(steps[i].locator)

\* Three installed occurrences of lib share one definition; dep has its
\* own.
C3_Witness ==
  /\ project = Mixed
  /\ PlanProcessed
  /\ Len(isolatedCode) = 2
  /\ Len(Injections(isolatedIntegration)) = 4

\* C4: a run of the hook that writes the build description over the one
\* an earlier run of the hook wrote for the same project writes the same
\* text, whatever the order in which it enumerated storedPackages.
C4_SameText ==
  (PlanProcessed /\ before.nixExpr.by = "hook") => nixExpr = before.nixExpr

\* The hook has built cacheEntries in this run.
Indexed ==
  /\ cfg.gen = "hook"
  /\ pc \notin {"start", "index", "skipped"}
  /\ thrown # "ChecksumError"

\* C5: the keys of cacheEntries are exactly the resolved packages whose
\* derived cache path is not null and whose file is in the cache
\* directory, each once; no other package is ever a key.
C5_KeysExact ==
  LET keys == CacheKeys(project)
      held == {cacheEntries[i].locator : i \in DOMAIN cacheEntries}
  IN /\ held \subseteq keys
     /\ Indexed =>
          /\ held = keys
          /\ Len(cacheEntries) = Cardinality(keys)

\* dep's archive is not on disk: lib alone is a key.
C5_Witness ==
  /\ project = LocalDep
  /\ Indexed
  /\ {cacheEntries[i].locator : i \in DOMAIN cacheEntries} = {2}

\* C6: in a build description the hook wrote, the support section and the
\* injection block with its header and trailer are there exactly when
\* there is an injection step; with no installed allow-listed package
\* there is no step, no isolated-build definition, no block, no section.
C6_SupportIffInjection ==
  nixExpr.by = "hook" =>
    LET block == nixExpr.integration
        steps == Injections(block)
    IN /\ nixExpr.supportSection <=> Len(steps) > 0
       /\ block # <<>> <=> Len(steps) > 0
       /\ Len(steps) > 0 =>
            /\ block[1].kind = "header"
            /\ block[Len(block)].kind = "trailer"
            /\ Len(block) = Len(steps) + 2
       /\ (\A l \in Range(BuildKeys) : ~IsIsolated(l)) =>
            /\ Len(steps) = 0
            /\ nixExpr.isolated = <<>>

\* The only installed package is not allow-listed: the file is written
\* with an empty mapping, no block and no section.
C6_Witness ==
  /\ project = NoMatch
  /\ PlanProcessed
  /\ nixExpr.isolated = <<>>
  /\ nixExpr.integration = <<>>
  /\ ~nixExpr.supportSection

\* The run is over and was not skipped.
RunEnded == pc \in {"done", "failed"}

Errors(messages) == SelectSeq(messages, LAMBDA m : m[1] = "error")

\* The unsupported-configuration error was raised once and nothing else:
\* thrown by the hook, reported by the command.
UnsupportedRaisedOnce ==
  IF cfg.gen = "hook"
  THEN thrown = "UnsupportedLinker" /\ Errors(report) = <<>>
  ELSE /\ thrown = Null
       /\ Errors(report) = << <<"error", "UnsupportedLinker">> >>

\* A fatal error that comes before the linker is looked at.
EarlierFatal == thrown \in {"ChecksumError", "LocatorNotRegistered"}

\* C7 as stated: every run with a nodeLinker other than pnp ends with the
\* unsupported-configuration error, raised once, and writes no build
\* description (runs that another fatal error ended first are left
\* aside).
C7_EveryRunRejectsLinker ==
  (RunEnded /\ cfg.nodeLinker # "pnp" /\ ~EarlierFatal) =>
    /\ UnsupportedRaisedOnce
    /\ "nixExpr" \notin written

\* C7 as amended: the command rejects every nodeLinker other than pnp;
\* the hook rejects it exactly when the install plan holds a registered
\* package whose name is on the allow-list, and otherwise writes the file.
C7_RejectsLinkerWhenIsolating ==
  (RunEnded /\ cfg.nodeLinker # "pnp") =>
    IF cfg.gen = "command"
    THEN UnsupportedRaisedOnce /\ written = {}
    ELSE IF EarlierFatal THEN written = {}
    ELSE IF InstalledIsolated # <<>>
      THEN UnsupportedRaisedOnce /\ written = {}
      ELSE thrown # "UnsupportedLinker" /\ "nixExpr" \in written

\* The hook met an allow-listed installed package under another linker.
C7_Witness ==
  /\ project = Peers
  /\ cfg.gen = "hook"
  /\ cfg.nodeLinker # "pnp"
  /\ pc = "failed"
  /\ thrown = "UnsupportedLinker"
  /\ written = {}

\* Nothing is missing around package l.
WellFormed(p, l) ==
  /\ isVirtualLocator(l) => devirtualizeLocator(l) \in p.storedPackages
  /\ isPatchLocator(l) => sourceLocator(l) \in p.storedPackages
  /\ \A d \in Range(p.dependencies[l]) :
       /\ d \in DOMAIN p.storedResolutions
       /\ p.storedResolutions[d] \in p.storedPackages

\* The occurrences whose closure the planner walks: the first one of each
\* devirtualized identity.
WalkedRoots ==
  { InstalledIsolated[i] : i \in
      { i \in DOMAIN InstalledIsolated :
          \A j \in 1..(i - 1) :
            devirtualizeLocator(InstalledIsolated[j])
              # devirtualizeLocator(InstalledIsolated[i]) } }

\* C8: a run that throws one of the two assertion failures has written
\* nothing, has changed no file and no store path and has invoked no
\* import; and no run gets through the install plan when a package the
\* planner visits has something missing.
C8_FatalBeforeWrite ==
  /\ thrown \in {"LocatorNotRegistered", "DescriptorNotRegistered"} =>
       /\ pc = "failed"
       /\ written = {}
       /\ nixExpr = before.nixExpr
       /\ defaultNix = before.defaultNix
       /\ nixStore = before.nixStore
       /\ toPreload = <<>>
       /\ calls = <<>>
  /\ PlanProcessed =>
       /\ Range(BuildKeys) \subseteq project.storedPackages
       /\ \A root \in WalkedRoots :
            \A l \in Reachable(project, root) : WellFormed(project, l)

\* An unregistered descriptor aborts the hook; the file the command wrote
\* earlier is still there.
C8_Witness ==
  /\ thrown = "DescriptorNotRegistered"
  /\ before.nixExpr.by = "command"
  /\ nixExpr = before.nixExpr

\* C9: within a run default.nix changes only from absent to the wrapper
\* template, and in the hook only with generateDefaultNix on and no
\* flake.nix; a run that finds default.nix leaves it as it is. Every run
\* that ends without error has written the build description.
C9_WrapperOnce ==
  /\ defaultNix # before.defaultNix =>
       /\ before.defaultNix = "absent"
       /\ defaultNix = "template"
       /\ cfg.gen = "hook" => cfg.generateDefaultNix /\ ~flakeNix
  /\ pc = "done" =>
       /\ "nixExpr" \in written
       /\ nixExpr.by = cfg.gen

\* The first run created the wrapper; the second run, which would create
\* one, found it and has finished.
C9_Witness ==
  /\ runs = 2
  /\ before.defaultNix = "template"
  /\ cfg.gen = "hook"
  /\ cfg.generateDefaultNix
  /\ ~flakeNix
  /\ pc = "done"
  /\ defaultNix = "template"

\* C10: an invocation of nix-store that fails with ENOENT ends the run
\* without error and without the preload count; one that fails otherwise
\* ends the run with that error.
C10_OnlyEnoentSwallowed ==
  \A i \in DOMAIN calls :
    /\ calls[i].outcome = "ENOENT" =>
         /\ i = Len(calls)
         /\ pc = "done"
         /\ thrown = Null
         /\ \A k \in DOMAIN report : report[k][2] # "preloaded"
    /\ calls[i].outcome \notin {"ok", "ENOENT"} =>
         /\ i = Len(calls)
         /\ pc = "failed"
         /\ thrown = calls[i].outcome

C10_Witness ==
  /\ Len(calls) = 1
  /\ calls[1].outcome = "ENOENT"
  /\ pc = "done"
  /\ thrown = Null

\* The path is not below the project directory.
IsOutside(path) ==
  ~(/\ Len(path) >= Len(ProjectCwd)
    /\ SubSeq(path, 1, Len(ProjectCwd)) = ProjectCwd)

\* The configuration files among the sources.
SourceFiles(p) == SelectSeq(p.sources, LAMBDA source : ~IsPseudoSource(source))

HasOutsidePath(p) ==
  \/ IsOutside(p.yarnPath)
  \/ IsOutside(p.cacheFolder)
  \/ \E i \in DOMAIN SourceFiles(p) : IsOutside(SourceFiles(p)[i])

Warnings(messages) == SelectSeq(messages, LAMBDA m : m[1] = "warning")

\* The paths the messages of one kind name.
Named(messages, tag) ==
  LET chosen == SelectSeq(messages, LAMBDA m : m[2] = tag)
  IN [i \in DOMAIN chosen |-> chosen[i][3]]

\* A failure that has nothing to do with where the input paths are.
UnrelatedFailure ==
  \/ thrown # Null
  \/ \E i \in DOMAIN report :
       report[i][1] = "error" /\ report[i][2] # "yarnPathOutside"

\* C11 as stated: a run of either generator on a project with an input
\* path outside the project directory, which nothing else stops, reports
\* no error and writes the build description.
C11_OutsideOnlyWarns ==
  (RunEnded /\ HasOutsidePath(project) /\ ~UnrelatedFailure) =>
    /\ Errors(report) = <<>>
    /\ Warnings(report) # <<>>
    /\ "nixExpr" \in written

\* The hook's test for a path outside the project: outside, and not the
\* directory that holds the project directory itself.
BelowParent(path) == IsOutside(path) /\ path # Dirname(ProjectCwd)

\* The first segment of the Yarn path below the project begins with a dot.
InDotDirectory(path) ==
  /\ ~IsOutside(path)
  /\ Len(path) > Len(ProjectCwd)
  /\ path[Len(ProjectCwd) + 1] \in {".yarn", ".yarnrc.yml"}

\* The hook failed before it came to write the build description.
FailedBeforeWrite ==
  thrown \in {"ChecksumError", "LocatorNotRegistered",
              "DescriptorNotRegistered", "UnsupportedLinker", "RangeError"}

\* C11 as amended. The hook warns once for each path outside the project
\* (the directory holding the project aside), reports no error, goes on
\* with the absolute Yarn path and cache folder, and writes the file
\* unless a later stage throws; the file holds the absolute cache folder
\* and the Yarn path relative to the file's directory. The command reports
\* an error and writes nothing when the Yarn path is outside the project
\* or in a dot directory, and otherwise warns for each configuration file
\* outside, leaves it out of the closure entries, and writes the file.
C11_HookWarnsCommandRejects ==
  /\ (cfg.gen = "hook" /\ pc \notin {"start", "skipped"}) =>
       /\ Errors(report) = <<>>
       /\ Named(report, "yarnPathOutside") =
            IF BelowParent(project.yarnPath) THEN <<project.yarnPath>>
            ELSE <<>>
       /\ Named(report, "cacheFolderOutside") =
            IF BelowParent(project.cacheFolder) THEN <<project.cacheFolder>>
            ELSE <<>>
       /\ Named(report, "configOutside") =
            SelectSeq(SourceFiles(project), BelowParent)
       /\ IsAbsolute(yarnPath) <=> BelowParent(project.yarnPath)
       /\ Resolve(yarnPath) = project.yarnPath
       /\ IsAbsolute(cacheFolder) <=> BelowParent(project.cacheFolder)
       /\ Resolve(cacheFolder) = project.cacheFolder
       /\ (RunEnded /\ ~FailedBeforeWrite) => "nixExpr" \in written
       /\ "nixExpr" \in written =>
            /\ nixExpr.cacheFolder = cacheFolder
            /\ ~IsAbsolute(nixExpr.yarnPath)
            /\ Normalize(Dirname(NixExprPath), nixExpr.yarnPath)
                 = project.yarnPath
  /\ (cfg.gen = "command" /\ RunEnded /\ cfg.nodeLinker = "pnp") =>
       IF IsOutside(project.yarnPath) \/ InDotDirectory(project.yarnPath)
       THEN /\ report = << <<"error", "yarnPathOutside">> >>
            /\ pc = "failed"
            /\ written = {}
       ELSE /\ Named(report, "cacheFolderOutside") = <<>>
            /\ pc = "done" =>
                 /\ "nixExpr" \in written
                 /\ Named(report, "pathIgnored") =
                      SelectSeq(SourceFiles(project), IsOutside)
                 /\ \A e \in nixExpr.closureEntries :
                      Normalize(ProjectCwd, e[2]) \notin
                        Range(SelectSeq(SourceFiles(project), IsOutside))

\* The hook has finished on the project whose Yarn release, cache folder
\* and one configuration file are outside: three warnings, the file is
\* written with the absolute cache folder.
C11_Witness ==
  /\ project = Outside
  /\ cfg.gen = "hook"
  /\ pc = "done"
  /\ Len(Warnings(report)) = 3
  /\ "nixExpr" \in written
  /\ nixExpr.cacheFolder = <<"/", "home", "cache">>
  /\ nixExpr.yarnPath = <<"..", "yarn.cjs">>

\* The store path the hook computes for a cache entry.
StorePathOf(entry) ==
  computeFixedOutputStorePath(sanitizeDerivationName(entry.locator),
                              entry.sha512)

\* The cache entries whose store path did not exist when the run started,
\* in the order of cacheEntries.
NeedsPreload ==
  SelectSeq(cacheEntries, LAMBDA entry : StorePathOf(entry) \notin
                                          before.nixStore)

\* The staged file of a cache entry.
StagedFile(entry) ==
  [dir |-> entry.sha512[1], name |-> sanitizeDerivationName(entry.locator),
   content |-> entry.sha512]

RECURSIVE Flatten(_)
Flatten(seqs) ==
  IF seqs = <<>> THEN <<>> ELSE Head(seqs) \o Flatten(Tail(seqs))

\* The files handed to nix-store so far, in the order they were handed.
Passed == Flatten([i \in DOMAIN calls |-> calls[i].batch])

Ceil(n, d) == (n + d - 1) \div d

StagingPath(file) == <<file.dir, file.name>>

\* C13: staging never fails because of an entry staged earlier in the
\* run, and once it is over every cache entry whose store path did not
\* exist has a staged file at a path of its own.
C13_StagingSucceeds ==
  /\ thrown # "EEXIST"
  /\ pc = "batch" =>
       /\ Len(Passed \o toPreload) = Len(NeedsPreload)
       /\ \A i, j \in DOMAIN toPreload :
            i # j => StagingPath(toPreload[i]) # StagingPath(toPreload[j])

\* The isolated-build keys an injection block refers to.
InjectedProps(integration) ==
  {Injections(integration)[i].prop : i \in DOMAIN Injections(integration)}

\* The isolated-build keys a list of definitions defines.
DefinedProps(code) == {code[i].prop : i \in DOMAIN code}

PlanPosition(l) == CHOOSE i \in DOMAIN BuildKeys : BuildKeys[i] = l

\* The first allow-listed occurrence of each devirtualized identity, in
\* plan order.
FirstOccurrences ==
  SelectSeq(InstalledIsolated, LAMBDA l : l \in WalkedRoots)

\* The definition the planner makes from occurrence root.
DefinitionFrom(root) ==
  [prop |-> devirtualizeLocator(root), pname |-> NameOf(root),
   version |-> "1.0.0",
   locators |-> Ascending(Reachable(project, root) \cap CacheKeys(project))]

\* C15: every isolated-build definition is, at every moment of the run,
\* the one made from the first allow-listed occurrence of its
\* devirtualized identity in the install plan, with the sorted closure of
\* that occurrence; and there is one injection step for each allow-listed
\* occurrence processed so far, so that a later occurrence adds a step
\* and nothing else.
C15_FirstOccurrenceWins ==
  cfg.gen = "hook" =>
    /\ Len(isolatedCode) <= Len(FirstOccurrences)
    /\ \A i \in DOMAIN isolatedCode :
         isolatedCode[i] = DefinitionFrom(FirstOccurrences[i])
    /\ pc = "plan" =>
         /\ [i \in DOMAIN Injections(isolatedIntegration) |->
               Injections(isolatedIntegration)[i].locator]
              = SelectSeq(InstalledIsolated,
                          LAMBDA l : PlanPosition(l) < buildIdx)
         /\ \A i \in DOMAIN FirstOccurrences :
              PlanPosition(FirstOccurrences[i]) < buildIdx
                => i <= Len(isolatedCode)

\* The second virtual instance of lib came first and has no dependency;
\* the first one, processed later, depends on dep: the definition holds
\* lib alone and there are two steps.
C15_Witness ==
  /\ project = Skewed
  /\ PlanProcessed
  /\ Len(isolatedCode) = 1
  /\ isolatedCode[1].locators = <<2>>
  /\ Reachable(project, 4) \cap CacheKeys(project) = {1, 2}
  /\ Len(Injections(isolatedIntegration)) = 2

====
